---- MODULE Spec2Model ----
(***************************************************************************)
(* btrview: the subvolume data model, the deleted-ancestor synthesizer,    *)
(* the forest builder (get_forest / get_tree), the subvolume sieve and the *)
(* forest sorter, as state machines translated from src/btrview.           *)
(*                                                                         *)
(* Identifiers are strings in the program; here they are naturals >= 1.    *)
(* None is Python's None and EmptyStr the "" that `x or ""` puts in its    *)
(* place; the two are different values, as in the program.                 *)
(***************************************************************************)
EXTENDS Integers, Sequences, FiniteSets, TLC

VARIABLES
    kind,        \* get_forest's `kind`: "subvol" (layout) or "snap" (lineage)
    subvols,     \* the caller's list of Subvolume (Btrfs.subvolumes' `subvols`)
    deleted_subvols, \* the list _get_deleted_subvols returned, <<>> before the call
    synthesized, \* whether _get_deleted_subvols' result was appended to subvols
    pc,          \* position in get_forest / get_tree
    subvolumes,  \* get_forest's working copy, the pool get_tree removes from
    trees,       \* get_forest's `trees`
    arg,         \* the `subvol` argument of the get_tree call about to run
    stack,       \* get_tree calls suspended in the recursive call of line 177
    ret,         \* index in trees of the tree the last get_tree call returned
    raised,      \* the exception that ended the run, "none" if none
    mounts,      \* the filesystem's mounts (Btrfs.mounts), held by every Subvolume
    sieve_subvolumes, \* SubvolumeSieve.subvolumes
    call,        \* the last call of sieve_str: its arguments and its outcome
    prev,        \* the call of sieve_str before that
    forest_in,   \* the forest ForestDisplay.sort_forest is given
    sort_call,   \* the last call of sort_forest: its arguments and its outcome
    sort_prev,   \* the call of sort_forest before that
    displayed,   \* the forests display_forest has built from ForestDisplay.subvolumes
    filesystem,  \* a Btrfs: its top-level subvolume, those the iterator gives, its mounts
    listing,     \* the last call of Btrfs.subvolumes: its argument and its outcome
    send_args,   \* btrsend: snap_dir, send_dirs and the directories same_mount is true of
    send_pc,     \* btrsend: where logic is
    send_d,      \* btrsend: the index in send_dirs of the loop of line 40
    ops          \* btrsend: the btrfs commands that changed the filesystem, in order

forestVars == <<kind, subvols, deleted_subvols, synthesized, pc, subvolumes, trees, arg, stack, ret, raised>>

sieveVars == <<mounts, sieve_subvolumes, call, prev>>

sortVars == <<forest_in, sort_call, sort_prev>>

displayVars == <<displayed>>

listVars == <<filesystem, listing>>

sendVars == <<send_args, send_pc, send_d, ops>>

vars == <<forestVars, sieveVars, sortVars, displayVars, listVars, sendVars>>

-----------------------------------------------------------------------------
(* Bounds of the model *)

MaxSubvols == 3

\* the longest list given to a SubvolumeSieve
MaxSieved == 3

\* the most names a second call adds to those of the first
MaxMoreNames == 1

\* the most nodes of a forest given to sort_forest
MaxNodes == 4

\* the longest list given to a ForestDisplay
MaxDisplayed == 2

\* the most subvolumes a filesystem has below its top level
MaxListed == 2

\* the directories btrsend is given are among 1..MaxDirs
MaxDirs == 2

\* the most directories after --send
MaxSends == 2

-----------------------------------------------------------------------------
(* Subvolume: props dictionary and deleted flag *)

None == -1

EmptyStr == 0

\* Identifiers of subvolumes that are not in a list of n subvolumes: a layout
\* parent such as the "0" of the top level, a UUID of a deleted or foreign
\* subvolume.
ForeignIds(n) == {n + 1, n + 2}

\* A "btrfs Path" is the sequence of its components, "/" the empty sequence;
\* NoPath is the None of a subvolume without one.
NoPath == <<None>>

\* Subvolume.__getitem__: a key missing from props reads as None
Subvolume(uuid, sid, pid, puuid, ruuid, path, gen, deleted) ==
    [uuid |-> uuid, sid |-> sid, pid |-> pid, puuid |-> puuid, ruuid |-> ruuid,
     path |-> path, gen |-> gen, deleted |-> deleted]

\* A placeholder for a deleted subvolume: props = {"UUID": uuid}, deleted = True
from_deleted(uuid) == Subvolume(uuid, None, None, None, None, NoPath, None, TRUE)

\* `a or b` on values that are None or non-empty strings
Or(a, b) == IF a # None THEN a ELSE b

\* Subvolume.parent with the two fields of the lineage scheme exchanged:
\* self["Parent UUID"] or self["Received UUID"]
parentPuuidFirst(s, p_type) ==
    CASE p_type = "snap" -> Or(s.puuid, s.ruuid)
      [] p_type = "subvol" -> s.pid
      [] OTHER -> None

\* Subvolume.parent(p_type)
parent(s, p_type) ==
    CASE p_type = "snap" -> Or(s.ruuid, s.puuid)
      [] p_type = "subvol" -> s.pid
      [] OTHER -> None

\* Subvolume.id(p_type)
id(s, p_type) ==
    CASE p_type = "snap" -> s.uuid
      [] p_type = "subvol" -> s.sid
      [] OTHER -> None

\* Subvolume.__eq__: equality is equality of the UUIDs
SubvolEq(a, b) == a.uuid = b.uuid

-----------------------------------------------------------------------------
(* Mounts and the classification of a subvolume *)

RootId == 5

\* Mount(fsroot, target)
Mount(fsroot, target) == [fsroot |-> fsroot, target |-> target]

\* PurePath.is_relative_to: other is a prefix of path, component by component
IsRelativeTo(path, other) ==
    Len(other) <= Len(path) /\ SubSeq(path, 1, Len(other)) = other

\* Mount.resolve: the first occurrence of fsroot in the path, its head, gives
\* way to target
Resolve(mount, path) ==
    mount.target \o SubSeq(path, Len(mount.fsroot) + 1, Len(path))

\* Subvolume.paths, as a set: the order is that of the mounts, a set's
Paths(s, mnts) ==
    IF s.path = NoPath THEN {}
    ELSE {Resolve(m, s.path) : m \in {x \in mnts : IsRelativeTo(s.path, x.fsroot)}}

\* Subvolume.mounted asking for a path that is the target of a mount
mountedAtMountPoint(s, mnts) ==
    {path \in Paths(s, mnts) : path \in {m.target : m \in mnts}} # {}

\* Subvolume.mounted
mounted(s, mnts) == Paths(s, mnts) # {}

\* Subvolume.mount_points without the filter on self.paths: the targets of
\* the mounts
mountPointsAllTargets(s, mnts) == {m.target : m \in mnts}

\* Subvolume.mount_points
mount_points(s, mnts) == {path \in Paths(s, mnts) : path \in {m.target : m \in mnts}}

\* Subvolume.root_subvolume: the subvolume with ID 5
root_subvolume(s) == s.sid = RootId

\* Subvolume.snapshot: the subvolume has a Parent UUID
snapshot(s) == s.puuid # None

-----------------------------------------------------------------------------
(* Lists *)

Range(f) == {f[i] : i \in DOMAIN f}

\* list.remove(x) left out: the list as it was
ListKeep(list, x) == list

\* list.remove(x): drops the first element equal to x (Subvolume.__eq__)
ListRemove(list, x) ==
    LET hits == {i \in 1..Len(list) : SubvolEq(list[i], x)}
    IN  IF hits = {} THEN list
        ELSE LET k == CHOOSE i \in hits : \A j \in hits : i <= j
             IN  SubSeq(list, 1, k - 1) \o SubSeq(list, k + 1, Len(list))

\* All orders in which a finite set can be iterated
Perms(S) ==
    {f \in [1..Cardinality(S) -> S] : \A i, j \in 1..Cardinality(S) : f[i] = f[j] => i = j}

-----------------------------------------------------------------------------
(* treelib.Tree, as far as the program uses it: the identifiers of the     *)
(* nodes, each node's predecessor, its successors in insertion order and   *)
(* its data (the Subvolume).                                               *)

EmptyFn == [x \in {} |-> None]

\* Tree()
NewTree == [root |-> None, parent |-> EmptyFn, children |-> EmptyFn, data |-> EmptyFn]

\* `ID in tree`
Contains(tree, ID) == ID \in DOMAIN tree.parent

\* tree.size() / len(tree)
Size(tree) == Cardinality(DOMAIN tree.parent)

\* Tree.add_node(node, parent): the errors treelib raises, else the tree with
\* the node appended to its parent's successors
AddNode(tree, nid, pid, data) ==
    IF Contains(tree, nid) THEN [err |-> "DuplicatedNodeIdError", tree |-> tree]
    ELSE IF pid = None /\ tree.root # None THEN [err |-> "MultipleRootError", tree |-> tree]
    ELSE IF pid # None /\ ~Contains(tree, pid) THEN [err |-> "NodeIDAbsentError", tree |-> tree]
    ELSE [err |-> "none",
          tree |-> [root |-> IF pid = None THEN nid ELSE tree.root,
                    parent |-> tree.parent @@ (nid :> pid),
                    children |-> IF pid = None THEN tree.children @@ (nid :> <<>>)
                                 ELSE [tree.children EXCEPT ![pid] = Append(@, nid)]
                                      @@ (nid :> <<>>),
                    data |-> tree.data @@ (nid :> data)]]

\* tree.create_node(name, subvol_id, parent_id, data=subvol) of get_tree
CreateNode(tree, subvol_id, parent_id, subvol) == AddNode(tree, subvol_id, parent_id, subvol)

\* tree.children(nid): the successors of nid, by identifier
Children(tree, nid) == tree.children[nid]

\* the identifiers tree.expand_tree(nid) visits
RECURSIVE Expand(_, _)
Expand(tree, nid) ==
    {nid} \cup UNION {Expand(tree, tree.children[nid][k]) : k \in 1..Len(tree.children[nid])}

\* tree.subtree(nid): the nodes under nid with their pointers, nid the root
Subtree(tree, nid) ==
    LET nodes == Expand(tree, nid)
    IN  [root |-> nid,
         parent |-> [x \in nodes |-> IF x = nid THEN None ELSE tree.parent[x]],
         children |-> [x \in nodes |-> tree.children[x]],
         data |-> [x \in nodes |-> tree.data[x]]]

\* tree.paste(nid, new_tree): the errors treelib raises, else the tree with
\* new_tree's nodes and new_tree's root appended to the successors of nid
Paste(tree, nid, new_tree) ==
    IF new_tree.root = None THEN [err |-> "none", tree |-> tree]
    ELSE IF ~Contains(tree, nid) THEN [err |-> "NodeIDAbsentError", tree |-> tree]
    ELSE IF DOMAIN new_tree.parent \cap DOMAIN tree.parent # {}
    THEN [err |-> "ValueError", tree |-> tree]
    ELSE [err |-> "none",
          tree |-> [root |-> tree.root,
                    parent |-> tree.parent
                               @@ [x \in DOMAIN new_tree.parent |->
                                      IF x = new_tree.root THEN nid ELSE new_tree.parent[x]],
                    children |-> [tree.children EXCEPT ![nid] = Append(@, new_tree.root)]
                                 @@ new_tree.children,
                    data |-> tree.data @@ new_tree.data]]

-----------------------------------------------------------------------------
(* btrfs.py: the deleted-ancestor synthesizer and the forest builder *)

\* _get_deleted_subvols reading the Parent UUID alone, never the Received UUID
DeletedPuuidsParentOnly(list) ==
    LET uuids == {list[i].uuid : i \in 1..Len(list)}
        puuids == {list[i].puuid : i \in {j \in 1..Len(list) : list[j].puuid # None}}
    IN  puuids \ uuids

\* Btrfs._get_deleted_subvols: the set deleted_puuids; the list built from it
\* is in the set's iteration order, any order
DeletedPuuids(list) ==
    LET uuids == {id(list[i], "snap") : i \in 1..Len(list)}
        puuids == {parent(list[i], "snap") : i \in {j \in 1..Len(list) : parent(list[j], "snap") # None}}
    IN  puuids \ uuids

\* Btrfs._get_deleted_subvols: the lists it can return
GetDeletedSubvols(list) ==
    {[i \in 1..Len(order) |-> from_deleted(order[i])] : order \in Perms(DeletedPuuids(list))}

\* subvol_in_list: index of the first subvolume with that id, 0 for None
SubvolInList(ID, list, p_type) ==
    LET hits == {i \in 1..Len(list) : id(list[i], p_type) = ID}
    IN  IF hits = {} THEN 0 ELSE CHOOSE i \in hits : \A j \in hits : i <= j

\* subvol_in_forest looking at the roots of the trees only
SubvolInForestRootsOnly(ID, forest) ==
    LET hits == {i \in 1..Len(forest) : forest[i].root = ID}
    IN  IF hits = {} THEN 0 ELSE CHOOSE i \in hits : \A j \in hits : i <= j

\* subvol_in_forest: index of the first tree containing ID, 0 for None
SubvolInForest(ID, forest) ==
    LET hits == {i \in 1..Len(forest) : Contains(forest[i], ID)}
    IN  IF hits = {} THEN 0 ELSE CHOOSE i \in hits : \A j \in hits : i <= j

\* get_tree line 171: subvol.id(kind) or ""
SubvolId(s, p_type) == Or(id(s, p_type), EmptyStr)

\* get_tree line 172: subvol.parent(kind) or ""
ParentId(s, p_type) == Or(parent(s, p_type), EmptyStr)

\* Btrfs.subvolumes line 126: subvols.extend(self._get_deleted_subvols(subvols))
AppendDeleted ==
    /\ pc = "listed"
    /\ ~synthesized
    /\ deleted_subvols' \in GetDeletedSubvols(subvols)
    /\ subvols' = subvols \o deleted_subvols'
    /\ synthesized' = TRUE
    /\ UNCHANGED <<kind, pc, subvolumes, trees, arg, stack, ret, raised>>
    /\ UNCHANGED <<sieveVars, sortVars, displayVars, listVars, sendVars>>

\* get_forest without the copy of line 188: get_tree removes from the list
\* of the caller
CallersListShared(own, pool) == pool

\* get_forest line 188, subvolumes = subvolumes.copy(): get_tree removes from
\* the copy `pool` and the caller's list `own` keeps its elements
CallersList(own, pool) == own

\* get_forest lines 187-188: trees = [], subvolumes = subvolumes.copy()
GetForest ==
    /\ pc = "listed"
    /\ pc' = "loop"
    /\ trees' = <<>>
    /\ subvolumes' = subvols
    /\ UNCHANGED <<kind, subvols, deleted_subvols, synthesized, arg, stack, ret, raised>>
    /\ UNCHANGED <<sieveVars, sortVars, displayVars, listVars, sendVars>>

\* where control goes when a get_tree call returns tree number t
Returned(t, callers) ==
    /\ ret' = t
    /\ stack' = callers
    /\ pc' = IF callers = <<>> THEN "loop" ELSE "return"
    /\ raised' = "none"

\* an exception of create_node leaves get_tree and get_forest
Raise(err) ==
    /\ raised' = err
    /\ pc' = "raised"
    /\ UNCHANGED <<ret, stack, trees>>

\* get_tree passing parent_id to create_node on the new tree as well: treelib
\* raises NodeIDAbsentError for a parent that the new tree does not have
GetTreeBodyParentPassed(subvol) ==
    LET pool == ListRemove(subvolumes, subvol)
        subvol_id == SubvolId(subvol, kind)
        parent_id == ParentId(subvol, kind)
        t == SubvolInForest(parent_id, trees)
        p == SubvolInList(parent_id, pool, kind)
    IN  /\ subvolumes' = pool
        /\ IF t # 0
           THEN LET r == CreateNode(trees[t], subvol_id, parent_id, subvol)
                IN  /\ arg' = subvol
                    /\ IF r.err # "none" THEN Raise(r.err)
                       ELSE /\ trees' = [trees EXCEPT ![t] = r.tree]
                            /\ Returned(t, stack)
           ELSE IF p # 0
           THEN /\ stack' = Append(stack, subvol)
                /\ arg' = pool[p]
                /\ pc' = "call"
                /\ UNCHANGED <<trees, ret, raised>>
           ELSE /\ arg' = subvol
                /\ IF parent_id # EmptyStr THEN Raise("NodeIDAbsentError")
                   ELSE /\ trees' = Append(trees, CreateNode(NewTree, subvol_id, None, subvol).tree)
                        /\ Returned(Len(trees) + 1, stack)

\* get_tree lines 170-183 for the argument subvol, up to the recursive call of
\* line 177 or the return
GetTreeBody(subvol) ==
    LET pool == ListRemove(subvolumes, subvol)
        subvol_id == SubvolId(subvol, kind)
        parent_id == ParentId(subvol, kind)
        t == SubvolInForest(parent_id, trees)
        p == SubvolInList(parent_id, pool, kind)
    IN  /\ subvolumes' = pool
        /\ IF t # 0
           THEN LET r == CreateNode(trees[t], subvol_id, parent_id, subvol)
                IN  /\ arg' = subvol
                    /\ IF r.err # "none" THEN Raise(r.err)
                       ELSE /\ trees' = [trees EXCEPT ![t] = r.tree]
                            /\ Returned(t, stack)
           ELSE IF p # 0
           THEN /\ stack' = Append(stack, subvol)
                /\ arg' = pool[p]
                /\ pc' = "call"
                /\ UNCHANGED <<trees, ret, raised>>
           ELSE /\ trees' = Append(trees, CreateNode(NewTree, subvol_id, None, subvol).tree)
                /\ arg' = subvol
                /\ Returned(Len(trees) + 1, stack)

\* get_forest lines 189-191: while subvolumes: get_tree(subvolumes[0], ...)
Loop ==
    /\ pc = "loop"
    /\ subvolumes # <<>>
    /\ GetTreeBody(subvolumes[1])
    /\ subvols' = CallersList(subvols, subvolumes')
    /\ UNCHANGED <<kind, deleted_subvols, synthesized>>
    /\ UNCHANGED <<sieveVars, sortVars, displayVars, listVars, sendVars>>

\* get_forest line 192: return trees
Return ==
    /\ pc = "loop"
    /\ subvolumes = <<>>
    /\ pc' = "built"
    /\ UNCHANGED <<kind, subvols, deleted_subvols, synthesized, subvolumes, trees, arg, stack, ret, raised>>
    /\ UNCHANGED <<sieveVars, sortVars, displayVars, listVars, sendVars>>

\* get_tree line 177: the recursive call get_tree(parent, ...)
GetTree ==
    /\ pc = "call"
    /\ GetTreeBody(arg)
    /\ subvols' = CallersList(subvols, subvolumes')
    /\ UNCHANGED <<kind, deleted_subvols, synthesized>>
    /\ UNCHANGED <<sieveVars, sortVars, displayVars, listVars, sendVars>>

\* get_tree line 178, after the recursive call of line 177 returned `tree`
GetTreeResume ==
    /\ pc = "return"
    /\ stack # <<>>
    /\ LET subvol == stack[Len(stack)]
           r == CreateNode(trees[ret], SubvolId(subvol, kind), ParentId(subvol, kind), subvol)
       IN  IF r.err # "none" THEN Raise(r.err)
           ELSE /\ trees' = [trees EXCEPT ![ret] = r.tree]
                /\ Returned(ret, SubSeq(stack, 1, Len(stack) - 1))
    /\ UNCHANGED <<kind, subvols, deleted_subvols, synthesized, subvolumes, arg>>
    /\ UNCHANGED <<sieveVars, sortVars, displayVars, listVars, sendVars>>

-----------------------------------------------------------------------------
(* btrfs.py: SubvolumeSieve *)

\* the keys of SubvolumeSieve.SIEVES
SieveNames == {"deleted", "root", "snapshot", "unreachable", "non-mounts"}

\* a name that is no key of SIEVES
UnknownName == "mounted"

\* SubvolumeSieve.SIEVES[name](s)
SIEVES(name, s, mnts) ==
    CASE name = "deleted" -> s.deleted
      [] name = "root" -> root_subvolume(s)
      [] name = "snapshot" -> snapshot(s) /\ ~root_subvolume(s)
      [] name = "unreachable" -> ~(mounted(s, mnts) \/ s.deleted)
      [] name = "non-mounts" -> mount_points(s, mnts) = {}

\* sieve lines 38-39: bools = [f(subvol) for f in remove_funcs]; any(bools)
AllBools(funcs, s, mnts) == \A k \in 1..Len(funcs) : SIEVES(funcs[k], s, mnts)

AnyBools(funcs, s, mnts) == \E k \in 1..Len(funcs) : SIEVES(funcs[k], s, mnts)

\* the elements of list the predicate keeps, in order
RECURSIVE Select(_, _, _)
Select(list, funcs, mnts) ==
    IF list = <<>> THEN <<>>
    ELSE (IF AnyBools(funcs, list[1], mnts) THEN <<list[1]>> ELSE <<>>)
         \o Select(Tail(list), funcs, mnts)

\* sieve lines 44-45: for subvol in to_remove: copy.remove(subvol)
RECURSIVE RemoveAll(_, _)
RemoveAll(copy, to_remove) ==
    IF to_remove = <<>> THEN copy
    ELSE RemoveAll(ListRemove(copy, to_remove[1]), Tail(to_remove))

\* sieve removing in place while it iterates: the element after a removed one
\* is skipped
RECURSIVE SieveInPlaceFrom(_, _, _, _)
SieveInPlaceFrom(list, i, funcs, mnts) ==
    IF i > Len(list) THEN list
    ELSE IF AnyBools(funcs, list[i], mnts)
         THEN SieveInPlaceFrom(ListRemove(list, list[i]), i + 1, funcs, mnts)
         ELSE SieveInPlaceFrom(list, i + 1, funcs, mnts)

SieveInPlace(list, funcs, mnts) == SieveInPlaceFrom(list, 1, funcs, mnts)

\* sieve filtering self.subvolumes anew for each function: only the last
\* function has an effect
SieveLastOnly(list, funcs, mnts) ==
    IF funcs = <<>> THEN list
    ELSE RemoveAll(list, Select(list, <<funcs[Len(funcs)]>>, mnts))

\* SubvolumeSieve.sieve: the list returned
Sieve(list, funcs, mnts) == RemoveAll(list, Select(list, funcs, mnts))

\* the outcome of a call of sieve_str: the exception raised, the number of
\* evaluations of sieve predicates, the list returned
Outcome(err, evals, output) == [raised |-> err, evals |-> evals, output |-> output]

\* sieve_str looking each name up only when it is about to apply it
SieveStrLazy(list, names, mnts) ==
    LET bad == {k \in 1..Len(names) : names[k] \notin SieveNames}
        first == CHOOSE k \in bad : \A j \in bad : k <= j
    IN  IF bad = {} \/ list = <<>>
        THEN Outcome("none", Len(list) * Len(names),
                     IF bad = {} THEN Sieve(list, names, mnts) ELSE list)
        ELSE Outcome("KeyError", first - 1, <<>>)

\* SubvolumeSieve.sieve_str: the lookups of line 30 come first, all of them
SieveStr(list, names, mnts) ==
    IF \E k \in 1..Len(names) : names[k] \notin SieveNames
    THEN Outcome("KeyError", 0, <<>>)
    ELSE Outcome("none", Len(list) * Len(names), Sieve(list, names, mnts))

\* sieve line 43 without the copy: copy = self.subvolumes, the same list
SameList(list) == [items |-> list, same |-> TRUE]

\* sieve line 43: copy = self.subvolumes.copy(), another list with the
\* same elements
ListCopy(list) == [items |-> list, same |-> FALSE]

\* a call of sieve_str on the sieve's list: its arguments, its outcome,
\* self.subvolumes after it (the removals of line 45 show in it when copy is
\* the same list) and whether the list returned is self.subvolumes
Call(names) ==
    LET out == SieveStr(sieve_subvolumes, names, mounts)
        copy == ListCopy(sieve_subvolumes)
        same == out.raised = "none" /\ copy.same
    IN  [names |-> names, input |-> sieve_subvolumes, raised |-> out.raised,
         evals |-> out.evals, output |-> out.output,
         after |-> IF same THEN out.output ELSE sieve_subvolumes,
         same_list |-> same]

NoCall == [names |-> <<>>, input |-> <<>>, raised |-> "nocall", evals |-> 0, output |-> <<>>,
           after |-> <<>>, same_list |-> FALSE]

\* the sequences of names sieve_str is called with: the registered names of a
\* set in the order of SIEVES, with or without the unknown name among them
Registered == <<"deleted", "root", "snapshot", "unreachable", "non-mounts">>

RECURSIVE Pick(_, _)
Pick(S, k) ==
    IF k > Len(Registered) THEN <<>>
    ELSE (IF Registered[k] \in S THEN <<Registered[k]>> ELSE <<>>) \o Pick(S, k + 1)

Insert(seq, k, x) == SubSeq(seq, 1, k - 1) \o <<x>> \o SubSeq(seq, k, Len(seq))

NameSeqs ==
    {Pick(S, 1) : S \in SUBSET SieveNames}
    \cup {Insert(Pick(x[1], 1), x[2], UnknownName) :
            x \in {y \in (SUBSET SieveNames) \X (1..(Len(Registered) + 1)) :
                     y[2] <= Cardinality(y[1]) + 1}}

\* sieve.sieve_str(remove), the first call on a SubvolumeSieve
SieveStrCall ==
    /\ call = NoCall
    /\ \E names \in NameSeqs : call' = Call(names)
    /\ prev' = call
    /\ sieve_subvolumes' = call'.after
    /\ UNCHANGED mounts
    /\ UNCHANGED <<forestVars, sortVars, displayVars, listVars, sendVars>>

\* SubvolumeSieve(result): a sieve over the list the last call returned
NewSieve ==
    /\ call # NoCall /\ call.raised = "none"
    /\ prev = NoCall
    /\ sieve_subvolumes = call.input
    /\ sieve_subvolumes' = call.output
    /\ UNCHANGED <<mounts, call, prev>>
    /\ UNCHANGED <<forestVars, sortVars, displayVars, listVars, sendVars>>

\* a second call with the names of the first, on the list the first returned
SieveStrAgain ==
    /\ call # NoCall /\ call.raised = "none"
    /\ prev = NoCall
    /\ sieve_subvolumes = call.output
    /\ call' = Call(call.names)
    /\ prev' = call
    /\ sieve_subvolumes' = call'.after
    /\ UNCHANGED mounts
    /\ UNCHANGED <<forestVars, sortVars, displayVars, listVars, sendVars>>

\* a second call on the same list with the names of the first and more
SieveStrMore ==
    /\ call # NoCall /\ call.raised = "none"
    /\ prev = NoCall
    /\ sieve_subvolumes = call.input
    /\ \E more \in {Pick(S, 1) : S \in {T \in SUBSET SieveNames : Cardinality(T) \in 1..MaxMoreNames}} :
          call' = Call(call.names \o more)
    /\ prev' = call
    /\ sieve_subvolumes' = call'.after
    /\ UNCHANGED mounts
    /\ UNCHANGED <<forestVars, sortVars, displayVars, listVars, sendVars>>

-----------------------------------------------------------------------------
(* The lists a SubvolumeSieve is given, and the mounts *)

\* "/a on /home" alone; "/ on /mnt" with "/a on /mnt/a"
MountTables ==
    {{Mount(<<1>>, <<9>>)},
     {Mount(<<>>, <<8>>), Mount(<<1>>, <<8, 1>>)}}

\* the subvolumes at position i: a placeholder, the top level "/" with ID 5
\* (with a Parent UUID or without), a subvolume at "/a", a snapshot at "/a/b",
\* a snapshot at "/c"
SieveChoices(i) ==
    {from_deleted(i)}
    \cup {Subvolume(i, RootId, None, pu, None, <<>>, i, FALSE) : pu \in {None, i + 10}}
    \cup {Subvolume(i, RootId + i, RootId, None, None, <<1>>, i, FALSE)}
    \cup {Subvolume(i, RootId + i, RootId, i + 10, None, path, i, FALSE) :
            path \in {<<1, 2>>, <<3>>}}

SieveLists(n) ==
    {list \in [1..n -> UNION {SieveChoices(i) : i \in 1..n}] :
        /\ \A i \in 1..n : list[i] \in SieveChoices(i)
        /\ Cardinality({i \in 1..n : root_subvolume(list[i])}) <= 1}

\* no call of sort_forest yet
NoSort == [sort_func |-> "", reverse |-> FALSE, input |-> <<>>, raised |-> "nocall", output |-> <<>>]

SortIdle ==
    /\ forest_in = <<>>
    /\ sort_call = NoSort
    /\ sort_prev = NoSort

DisplayIdle == displayed = <<>>

\* no call of Btrfs.subvolumes yet
NoListing == [remove |-> <<>>, raised |-> "nocall", output |-> <<>>]

NoFilesystem == [top |-> None, below |-> <<>>, mounts |-> {}]

ListIdle ==
    /\ filesystem = NoFilesystem
    /\ listing = NoListing

NoArgs == [snap_dir |-> None, send_dirs |-> <<>>, on_mount |-> {}]

SendIdle ==
    /\ send_args = NoArgs
    /\ send_pc = "idle"
    /\ send_d = 0
    /\ ops = <<>>

ForestIdle ==
    /\ kind = "subvol"
    /\ subvols = <<>>
    /\ deleted_subvols = <<>>
    /\ synthesized = FALSE
    /\ pc = "idle"
    /\ subvolumes = <<>>
    /\ trees = <<>>
    /\ arg = None
    /\ stack = <<>>
    /\ ret = 0
    /\ raised = "none"

SieveIdle ==
    /\ mounts = {}
    /\ sieve_subvolumes = <<>>
    /\ call = NoCall
    /\ prev = NoCall

InitSieve ==
    /\ ForestIdle
    /\ SortIdle
    /\ DisplayIdle
    /\ ListIdle
    /\ SendIdle
    /\ mounts \in MountTables
    /\ \E n \in 0..MaxSieved : sieve_subvolumes \in SieveLists(n)
    /\ call = NoCall
    /\ prev = NoCall

NextSieve ==
    \/ SieveStrCall
    \/ NewSieve
    \/ SieveStrAgain
    \/ SieveStrMore

SpecSieve == InitSieve /\ [][NextSieve]_vars

-----------------------------------------------------------------------------
(* rich_output.py: ForestDisplay.sort_tree and sort_forest *)

\* the identifier treelib gives the node of pseudo_tree.create_node(): a
\* fresh uuid, no identifier of a subvolume
PseudoRoot == -2

\* the keys of SORT_FUNCS: "size" and one that reads a field of the Subvolume
\* ("Creation time", "Generation" and "Name" do the same with another field)
SortFuncNames == {"size", "Generation"}

\* SORT_FUNCS[name](t, n); None for a field the Subvolume does not have
SORT_FUNCS(name, t, n) ==
    CASE name = "size" -> Size(Subtree(t, n))
      [] name = "Generation" -> t.data[n].gen

\* sorted(children, key, reverse) compares None: TypeError
NotOrderable(list, keys) ==
    Len(list) >= 2 /\ \E k \in 1..Len(list) : keys[list[k]] = None

\* sorted() with a reverse that is not stable: x goes before the elements of
\* equal key when reverse is asked for
RECURSIVE PlaceBeforeEquals(_, _, _, _)
PlaceBeforeEquals(placed, x, keys, reverse) ==
    IF placed = <<>> THEN <<x>>
    ELSE LET last == placed[Len(placed)]
         IN  IF (~reverse /\ keys[last] <= keys[x]) \/ (reverse /\ keys[last] > keys[x])
             THEN Append(placed, x)
             ELSE Append(PlaceBeforeEquals(SubSeq(placed, 1, Len(placed) - 1), x, keys, reverse),
                         last)

\* the place sorted() gives x after the elements placed already: behind
\* those it does not go before
RECURSIVE Place(_, _, _, _)
Place(placed, x, keys, reverse) ==
    IF placed = <<>> THEN <<x>>
    ELSE LET last == placed[Len(placed)]
         IN  IF (~reverse /\ keys[last] <= keys[x]) \/ (reverse /\ keys[last] >= keys[x])
             THEN Append(placed, x)
             ELSE Append(Place(SubSeq(placed, 1, Len(placed) - 1), x, keys, reverse), last)

RECURSIVE Ascending(_, _)
Ascending(list, keys) ==
    IF list = <<>> THEN <<>>
    ELSE Place(Ascending(SubSeq(list, 1, Len(list) - 1), keys), list[Len(list)], keys, FALSE)

\* sorted(...)[::-1] where reverse is asked for: equal keys change places
SortedSlice(list, keys, reverse) ==
    IF reverse
    THEN [k \in 1..Len(list) |-> Ascending(list, keys)[Len(list) + 1 - k]]
    ELSE Ascending(list, keys)

\* sorted(list, key) with the direction left out
SortedAscendingOnly(list, keys, reverse) == Ascending(list, keys)

\* sorted(list, key, reverse): stable in both directions
RECURSIVE Sorted(_, _, _)
Sorted(list, keys, reverse) ==
    IF list = <<>> THEN <<>>
    ELSE Place(Sorted(SubSeq(list, 1, Len(list) - 1), keys, reverse),
               list[Len(list)], keys, reverse)

RECURSIVE SortTreeInto(_, _, _, _)
RECURSIVE AddSorted(_, _, _, _, _)

\* sort_tree lines 49-52: the loop over sorted_children
AddSorted(tree, sorted_children, sort_func, reverse, new_tree) ==
    IF sorted_children = <<>> THEN [err |-> "none", tree |-> new_tree]
    ELSE LET child == Head(sorted_children)
             added == AddNode(new_tree, child, tree.root, tree.data[child])
         IN  IF added.err # "none" THEN added
             ELSE LET sub == SortTreeInto(Subtree(tree, child), sort_func, reverse, added.tree)
                  IN  IF sub.err # "none" THEN sub
                      ELSE AddSorted(tree, Tail(sorted_children), sort_func, reverse, sub.tree)

\* sort_tree with new_tree given, lines 46-53
SortTreeInto(tree, sort_func, reverse, new_tree) ==
    LET children == Children(tree, tree.root)
        keys == [n \in Range(children) |-> SORT_FUNCS(sort_func, tree, n)]
    IN  IF NotOrderable(children, keys) THEN [err |-> "TypeError", tree |-> new_tree]
        ELSE AddSorted(tree, Sorted(children, keys, reverse), sort_func, reverse, new_tree)

\* ForestDisplay.sort_tree(tree, sort_func, reverse)
SortTree(tree, sort_func, reverse) ==
    LET rooted == AddNode(NewTree, tree.root, None, tree.data[tree.root])
    IN  IF rooted.err # "none" THEN rooted
        ELSE SortTreeInto(tree, sort_func, reverse, rooted.tree)

\* sort_forest lines 61-62: the trees pasted under the pseudo root
RECURSIVE PasteAll(_, _)
PasteAll(pseudo_tree, trees_left) ==
    IF trees_left = <<>> THEN [err |-> "none", tree |-> pseudo_tree]
    ELSE LET pasted == Paste(pseudo_tree, PseudoRoot, Head(trees_left))
         IN  IF pasted.err # "none" THEN pasted
             ELSE PasteAll(pasted.tree, Tail(trees_left))

\* ForestDisplay.sort_forest: the exception raised and the forest returned
SortForest(trees_in, sort_func, reverse) ==
    LET pseudo_tree == CreateNode(NewTree, PseudoRoot, None, None).tree
        pasted == PasteAll(pseudo_tree, trees_in)
        sorted_pseudo == SortTree(pasted.tree, sort_func, reverse)
    IN  IF pasted.err # "none" THEN [raised |-> pasted.err, output |-> <<>>]
        ELSE IF sorted_pseudo.err # "none" THEN [raised |-> sorted_pseudo.err, output |-> <<>>]
        ELSE [raised |-> "none",
              output |-> [k \in 1..Len(Children(sorted_pseudo.tree, PseudoRoot)) |->
                            Subtree(sorted_pseudo.tree, Children(sorted_pseudo.tree, PseudoRoot)[k])]]

\* a call of sort_forest
SortCall(trees_in, sort_func, reverse) ==
    LET out == SortForest(trees_in, sort_func, reverse)
    IN  [sort_func |-> sort_func, reverse |-> reverse, input |-> trees_in,
         raised |-> out.raised, output |-> out.output]

\* self.sort_forest(forest, sort_func, reverse) of display_forest
SortForestCall ==
    /\ sort_call = NoSort
    /\ \E sort_func \in SortFuncNames, reverse \in BOOLEAN :
          sort_call' = SortCall(forest_in, sort_func, reverse)
    /\ sort_prev' = sort_call
    /\ UNCHANGED forest_in
    /\ UNCHANGED <<forestVars, sieveVars, displayVars, listVars, sendVars>>

\* sort_forest again, on the forest it returned, same key and direction
SortForestAgain ==
    /\ sort_call # NoSort /\ sort_call.raised = "none"
    /\ sort_prev = NoSort
    /\ sort_call' = SortCall(sort_call.output, sort_call.sort_func, sort_call.reverse)
    /\ sort_prev' = sort_call
    /\ UNCHANGED forest_in
    /\ UNCHANGED <<forestVars, sieveVars, displayVars, listVars, sendVars>>

-----------------------------------------------------------------------------
(* The forests sort_forest is given: those get_forest returns *)

\* the subvolume of node i: a placeholder, or a subvolume of generation gen
\* whose parent is node par (None for a root)
SortedSubvolume(i, par, gen) ==
    IF gen = None THEN from_deleted(i)
    ELSE Subvolume(i, i, None, par, None, <<i>>, gen, FALSE)

\* the forest get_forest builds from subvolumes i..n listed parents first:
\* a subvolume with no parent starts a tree, another joins its parent's tree
RECURSIVE BuildForest(_, _, _, _, _)
BuildForest(par, gens, i, n, built) ==
    IF i > n THEN built
    ELSE LET subvol == SortedSubvolume(i, IF par[i] = 0 THEN None ELSE par[i], gens[i])
             t == CHOOSE k \in 1..Len(built) : Contains(built[k], par[i])
         IN  IF par[i] = 0
             THEN BuildForest(par, gens, i + 1, n,
                              Append(built, CreateNode(NewTree, i, None, subvol).tree))
             ELSE BuildForest(par, gens, i + 1, n,
                              [built EXCEPT ![t] = CreateNode(@, i, par[i], subvol).tree])

\* generations 1 and 2, so that keys tie; a placeholder is a root
Forests(n) ==
    {BuildForest(x[1], x[2], 1, n, <<>>) :
        x \in {y \in [1..n -> 0..n] \X [1..n -> {None, 1, 2}] :
                 \A i \in 1..n : /\ y[1][i] < i
                                 /\ (y[2][i] = None => y[1][i] = 0)}}

\* one tree whose root has children of subtree sizes 1, 3 and 2, in that
\* order: node 2 a leaf, node 3 over 4 and 5 (side by side or in a chain),
\* node 6 over 7; generations all equal or alternating
ScenarioForests ==
    {BuildForest(x[1], x[2], 1, 7, <<>>) :
        x \in {<<0, 1, 1, 3, 3, 1, 6>>, <<0, 1, 1, 3, 4, 1, 6>>}
              \X {[i \in 1..7 |-> 1], [i \in 1..7 |-> (i % 2) + 1]}}

InitSort ==
    /\ ForestIdle
    /\ SieveIdle
    /\ DisplayIdle
    /\ ListIdle
    /\ SendIdle
    /\ \/ \E n \in 0..MaxNodes : forest_in \in Forests(n)
       \/ forest_in \in ScenarioForests
    /\ sort_call = NoSort
    /\ sort_prev = NoSort

NextSort ==
    \/ SortForestCall
    \/ SortForestAgain

SpecSort == InitSort /\ [][NextSort]_vars

-----------------------------------------------------------------------------
(* Btrfs.subvolumes(remove) *)

\* the top-level subvolume, Subvolume.from_ID(mount_point, 5, self.mounts)
TopLevel == Subvolume(1, RootId, None, None, None, <<>>, 1, FALSE)

\* the subvolumes SubvolumeIterator(top = 5) gives, those below the top
\* level: number i has UUID i + 1 and is no snapshot, a snapshot of the top
\* level, of another subvolume of the filesystem or of one since deleted, and
\* may be received from another filesystem
Below(n) ==
    {[i \in 1..n |-> Subvolume(i + 1, RootId + i, RootId, x[1][i], x[2][i], <<i>>, i + 1, FALSE)] :
        x \in {y \in [1..n -> {None} \cup 1..(n + 2)] \X [1..n -> {None, n + 3}] :
                  \A i \in 1..n : y[1][i] # i + 1}}

Filesystems(n) ==
    {[top |-> TopLevel, below |-> b, mounts |-> m] : b \in Below(n), m \in MountTables}

\* Btrfs.subvolumes lines 124-126: the list before it is sieved, without its
\* placeholders
Listed(fs, remove) ==
    (IF "root" \in Range(remove) THEN <<>> ELSE <<fs.top>>) \o fs.below

\* Btrfs.subvolumes(remove), called once for a filesystem (logic, line 140);
\* line 123 reads self.mounts[0]
Subvolumes ==
    /\ filesystem.mounts # {}
    /\ listing = NoListing
    /\ \E remove \in NameSeqs :
          LET subvols_listed == Listed(filesystem, remove)
          IN  \E deleted \in GetDeletedSubvols(subvols_listed) :
                 LET out == SieveStr(subvols_listed \o deleted, remove, filesystem.mounts)
                 IN  listing' = [remove |-> remove, raised |-> out.raised, output |-> out.output]
    /\ UNCHANGED filesystem
    /\ UNCHANGED <<forestVars, sieveVars, sortVars, displayVars, sendVars>>

InitList ==
    /\ ForestIdle
    /\ SieveIdle
    /\ SortIdle
    /\ DisplayIdle
    /\ SendIdle
    /\ \E n \in 0..MaxListed : filesystem \in Filesystems(n)
    /\ listing = NoListing

NextList == Subvolumes

SpecList == InitList /\ [][NextList]_vars

-----------------------------------------------------------------------------
(* btrsend: logic(subvol, snap_dir, send_dirs) *)

\* subvol.path, where the snapshot goes when no directory is given
SubvolPath == 0

\* a command that changed the filesystem
Op(op, at) == [op |-> op, at |-> at]

\* logic line 34 without same_mount: a directory given ends the run
AbortsWhenGiven(snap_dir, on_mount) == snap_dir # None

\* logic line 34: snap_dir and not subvol.same_mount(snap_dir)
Aborts(snap_dir, on_mount) == snap_dir # None /\ snap_dir \notin on_mount

\* logic lines 33-36: check_root() prints at most; the early return
Logic ==
    /\ send_pc = "start"
    /\ send_pc' = IF Aborts(send_args.snap_dir, send_args.on_mount) THEN "returned" ELSE "snapshot"
    /\ UNCHANGED <<send_args, send_d, ops>>
    /\ UNCHANGED <<forestVars, sieveVars, sortVars, displayVars, listVars>>

\* logic line 37, Subvolume.snapshot(snap_dir or subvol.path): the snapshot
\* is taken; or snap_dir is no directory or the btrfs command fails and there
\* is no snapshot; or the snapshot is taken and from_path raises
Snapshot ==
    /\ send_pc = "snapshot"
    /\ \E outcome \in {"ok", "not taken", "taken, show raised"} :
          /\ ops' = IF outcome = "not taken" THEN ops
                    ELSE Append(ops, Op("snapshot", Or(send_args.snap_dir, SubvolPath)))
          /\ send_pc' = IF outcome = "ok" THEN "loop" ELSE "raised"
    /\ send_d' = 1
    /\ UNCHANGED send_args
    /\ UNCHANGED <<forestVars, sieveVars, sortVars, displayVars, listVars>>

\* logic lines 40-45, one pass of the loop: a directory on the subvolume's
\* mount is skipped; Subvolume.send either sends and returns, or sends and
\* from_path raises, or the pipeline fails, `btrfs subvolume delete path` is
\* run on the directory and send ends with an exception (of that command, or
\* of from_path for what is no longer there)
Send ==
    /\ send_pc = "loop"
    /\ send_d <= Len(send_args.send_dirs)
    /\ LET d == send_args.send_dirs[send_d]
       IN  IF d \in send_args.on_mount
           THEN UNCHANGED <<send_pc, ops>>
           ELSE \E outcome \in {"ok", "sent, show raised", "failed", "failed, path deleted"} :
                   /\ ops' = CASE outcome \in {"ok", "sent, show raised"} -> Append(ops, Op("send", d))
                               [] outcome = "failed" -> ops
                               [] outcome = "failed, path deleted" -> Append(ops, Op("delete path", d))
                   /\ send_pc' = IF outcome = "ok" THEN "loop" ELSE "raised"
    /\ send_d' = send_d + 1
    /\ UNCHANGED send_args
    /\ UNCHANGED <<forestVars, sieveVars, sortVars, displayVars, listVars>>

\* logic lines 47-48 after the loop: if not snap_dir: snapshot.delete()
Delete ==
    /\ send_pc = "loop"
    /\ send_d > Len(send_args.send_dirs)
    /\ IF send_args.snap_dir = None
       THEN \E outcome \in {"ok", "failed"} :
               /\ ops' = IF outcome = "ok" THEN Append(ops, Op("delete", SubvolPath)) ELSE ops
               /\ send_pc' = IF outcome = "ok" THEN "returned" ELSE "raised"
       ELSE send_pc' = "returned" /\ UNCHANGED ops
    /\ UNCHANGED <<send_args, send_d>>
    /\ UNCHANGED <<forestVars, sieveVars, sortVars, displayVars, listVars>>

\* the sequences of at most n directories
RECURSIVE DirSeqs(_)
DirSeqs(n) ==
    IF n = 0 THEN {<<>>}
    ELSE DirSeqs(n - 1) \cup {Append(q, d) : q \in {x \in DirSeqs(n - 1) : Len(x) = n - 1}, d \in 1..MaxDirs}

\* main: the arguments of the command line; subvol.same_mount answers True
\* for the directories of on_mount
InitSend ==
    /\ ForestIdle
    /\ SieveIdle
    /\ SortIdle
    /\ DisplayIdle
    /\ ListIdle
    /\ send_args \in [snap_dir : {None} \cup 1..MaxDirs, send_dirs : DirSeqs(MaxSends),
                      on_mount : SUBSET (1..MaxDirs)]
    /\ send_pc = "start"
    /\ send_d = 0
    /\ ops = <<>>

NextSend ==
    \/ Logic
    \/ Snapshot
    \/ Send
    \/ Delete

SpecSend == InitSend /\ [][NextSend]_vars

-----------------------------------------------------------------------------
(* The lists get_forest is given *)

\* layout: subvolume i has Subvolume ID i and any Parent ID; placeholders have
\* neither
LayoutLists(n) ==
    {[i \in 1..n |-> IF i \in del THEN from_deleted(i)
                     ELSE Subvolume(i, i, par[i], None, None, <<i>>, i, FALSE)] :
        <<par, del>> \in {x \in [1..n -> {None} \cup 1..n \cup ForeignIds(n)] \X SUBSET (1..n) :
                            \A i \in x[2] : x[1][i] = None}}

\* the (Received UUID, Parent UUID) pairs of a subvolume: either absent, or
\* both present and different
LineagePairs(n) ==
    LET ids == 1..n \cup ForeignIds(n)
    IN  {<<None, None>>} \cup {<<None, p>> : p \in ids} \cup {<<r, None>> : r \in ids}
        \cup {<<r, IF r + 1 \in ids THEN r + 1 ELSE 1>> : r \in ids}

\* lineage: subvolume i has UUID i
LineageLists(n) ==
    {[i \in 1..n |-> Subvolume(i, i, None, lin[i][2], lin[i][1], <<i>>, i, FALSE)] :
        lin \in [1..n -> LineagePairs(n)]}

Init ==
    /\ kind \in {"subvol", "snap"}
    /\ \E n \in 0..MaxSubvols :
          subvols \in IF kind = "subvol" THEN LayoutLists(n) ELSE LineageLists(n)
    /\ deleted_subvols = <<>>
    /\ synthesized = FALSE
    /\ pc = "listed"
    /\ subvolumes = <<>>
    /\ trees = <<>>
    /\ arg = None
    /\ stack = <<>>
    /\ ret = 0
    /\ raised = "none"
    /\ SieveIdle
    /\ SortIdle
    /\ DisplayIdle
    /\ ListIdle
    /\ SendIdle

Next ==
    \/ AppendDeleted
    \/ GetForest
    \/ Loop
    \/ GetTree
    \/ GetTreeResume
    \/ Return

Spec == Init /\ [][Next]_vars

\* the program runs on: a step that can be taken is taken
SpecFair == Spec /\ WF_vars(Next)

-----------------------------------------------------------------------------
(* logic: one ForestDisplay, display_forest("subvol") and then
   display_forest("snap") on the same list *)

\* the lists a ForestDisplay is given: subvolume i has Subvolume ID and UUID
\* i, any Parent ID of the list and the Parent UUID of another subvolume of
\* the list or none; placeholders have the UUID only
DisplayLists(n) ==
    {[i \in 1..n |-> IF i \in x[3] THEN from_deleted(i)
                     ELSE Subvolume(i, i, x[1][i], x[2][i], None, <<i>>, i, FALSE)] :
        x \in {y \in [1..n -> {None} \cup 1..n] \X [1..n -> {None} \cup 1..n] \X SUBSET (1..n) :
                  /\ \A i \in 1..n : y[2][i] # i
                  /\ \A i \in y[3] : y[1][i] = None /\ y[2][i] = None}}

\* display_forest lines 34-36 once get_forest has returned, and logic lines
\* 142-143: the forest is sorted and rendered, neither of which touches
\* self.subvolumes, and after the layout forest comes the lineage forest
DisplayForest ==
    /\ pc = "built"
    /\ Len(displayed) < 2
    /\ displayed' = Append(displayed, trees)
    /\ IF kind = "subvol"
       THEN kind' = "snap" /\ pc' = "listed"
       ELSE kind' = kind /\ pc' = "shown"
    /\ UNCHANGED <<subvols, deleted_subvols, synthesized, subvolumes, trees, arg, stack, ret, raised>>
    /\ UNCHANGED <<sieveVars, sortVars, listVars, sendVars>>

\* logic lines 140-142: display = ForestDisplay(subvols), the list of
\* Btrfs.subvolumes with its placeholders in it
InitDisplay ==
    /\ kind = "subvol"
    /\ \E n \in 0..MaxDisplayed : subvols \in DisplayLists(n)
    /\ deleted_subvols = <<>>
    /\ synthesized = TRUE
    /\ pc = "listed"
    /\ subvolumes = <<>>
    /\ trees = <<>>
    /\ arg = None
    /\ stack = <<>>
    /\ ret = 0
    /\ raised = "none"
    /\ displayed = <<>>
    /\ SieveIdle
    /\ SortIdle
    /\ ListIdle
    /\ SendIdle

NextDisplay ==
    \/ GetForest
    \/ Loop
    \/ GetTree
    \/ GetTreeResume
    \/ Return
    \/ DisplayForest

SpecDisplay == InitDisplay /\ [][NextDisplay]_vars

-----------------------------------------------------------------------------
(* What the forest builder's result is compared with *)

\* the places <<tree, node>> of the forest whose payload is subvolume s
Places(s) ==
    {<<t, n>> \in (1..Len(trees)) \X (0..(MaxSubvols + 3)) :
        n \in DOMAIN trees[t].parent /\ trees[t].data[n] = s}

\* the number of nodes of all trees together
RECURSIVE NodeCount(_)
NodeCount(forest) ==
    IF forest = <<>> THEN 0 ELSE Size(forest[1]) + NodeCount(Tail(forest))

\* s is the root of a tree of the forest
IsRoot(s) == \E pl \in Places(s) : trees[pl[1]].root = pl[2]

\* s is a node whose predecessor in its tree is a node with payload p
IsChildOf(s, p) ==
    \E pl \in Places(s) :
        LET tree == trees[pl[1]]
        IN  /\ tree.parent[pl[2]] # None
            /\ tree.data[tree.parent[pl[2]]] = p

\* the positions of list whose identifier is the parent identifier of position i
ParentsOf(list, p_type, i) ==
    {j \in 1..Len(list) :
        parent(list[i], p_type) # None /\ id(list[j], p_type) = parent(list[i], p_type)}

\* the positions reached from the positions S by following parent references
\* one to `steps` times
RECURSIVE Ancestors(_, _, _, _)
Ancestors(list, p_type, S, steps) ==
    IF steps = 0 THEN {}
    ELSE LET up == UNION {ParentsOf(list, p_type, i) : i \in S}
         IN  up \cup Ancestors(list, p_type, up, steps - 1)

\* no subvolume of list is its own ancestor
Acyclic(list, p_type) ==
    \A i \in 1..Len(list) : i \notin Ancestors(list, p_type, {i}, Len(list))

\* the identifiers of list under the scheme are pairwise distinct
DistinctIds(list, p_type) ==
    \A i, j \in 1..Len(list) : id(list[i], p_type) = id(list[j], p_type) => i = j

\* get_forest is over: it returned or it raised
Over == pc \in {"built", "raised"}

\* every subvolume of the list is the payload of exactly one node, and there
\* are no other nodes
Covered ==
    /\ NodeCount(trees) = Len(subvols)
    /\ \A i \in 1..Len(subvols) : Cardinality(Places(subvols[i])) = 1

\* C1: for every input list and either scheme get_forest returns a forest
\* whose node count is the length of the list and in which every input
\* subvolume is the payload of exactly one node.
C1_ForestCoverage == Over => (pc = "built" /\ Covered)

\* the parent relation C2 describes: a subvolume whose parent identifier is
\* the identifier of another subvolume of the list is a child of that
\* subvolume's node, every other subvolume is a root
ClaimedParents ==
    \A i \in 1..Len(subvols) :
        LET others == ParentsOf(subvols, kind, i) \ {i}
        IN  IF others # {}
            THEN \E j \in others : IsChildOf(subvols[i], subvols[j])
            ELSE IsRoot(subvols[i])

\* C2: for every list with pairwise distinct identifiers and acyclic parent
\* references, in every order, a subvolume whose parent identifier is the
\* identifier of another input subvolume becomes that subvolume's child and every
\* other subvolume a root.
C2_ParentRelation ==
    (Over /\ DistinctIds(subvols, kind) /\ Acyclic(subvols, kind))
        => (pc = "built" /\ ClaimedParents)

\* every subvolume with a lineage parent identifier is a child of the node
\* with that identifier
LineageClosed ==
    \A i \in 1..Len(subvols) :
        parent(subvols[i], "snap") # None =>
            /\ ~IsRoot(subvols[i])
            /\ \E j \in 1..Len(subvols) :
                  /\ id(subvols[j], "snap") = parent(subvols[i], "snap")
                  /\ IsChildOf(subvols[i], subvols[j])

\* C3 as stated: for all inputs, once the placeholders are appended and the
\* lineage forest is built, every subvolume with a lineage parent identifier is
\* a non-root node under the node with that identifier.
C3_LineageClosed_AllInputs ==
    (Over /\ kind = "snap" /\ synthesized) => (pc = "built" /\ LineageClosed)

\* C3 amended: the same for all inputs whose lineage parent references are
\* acyclic.
C3_LineageClosed ==
    (Over /\ kind = "snap" /\ synthesized /\ Acyclic(subvols, "snap"))
        => (pc = "built" /\ LineageClosed)

\* C3's case: a snapshot whose parent UUID matches no subvolume is the child of
\* a placeholder root with that UUID
C3_Witness ==
    /\ pc = "built" /\ kind = "snap" /\ synthesized
    /\ \E i, j \in 1..Len(subvols) :
          /\ ~subvols[i].deleted /\ subvols[j].deleted
          /\ subvols[i].puuid = subvols[j].uuid /\ subvols[i].ruuid = None
          /\ IsRoot(subvols[j])
          /\ IsChildOf(subvols[i], subvols[j])

\* the list _get_deleted_subvols was called with
Enumerated == SubSeq(subvols, 1, Len(subvols) - Len(deleted_subvols))

\* C4: _get_deleted_subvols returns exactly one placeholder for each identifier
\* of P \ U (U the uuids of the input, P its non-absent lineage parent
\* identifiers, the received UUID before the parent UUID), each with that
\* identifier as its uuid, and no two with the same uuid.
C4_DeletedSubvols ==
    synthesized =>
        LET U == {Enumerated[i].uuid : i \in 1..Len(Enumerated)}
            P == {IF Enumerated[i].ruuid # None THEN Enumerated[i].ruuid
                  ELSE Enumerated[i].puuid : i \in 1..Len(Enumerated)} \ {None}
        IN  /\ {deleted_subvols[k].uuid : k \in 1..Len(deleted_subvols)} = P \ U
            /\ Len(deleted_subvols) = Cardinality(P \ U)
            /\ \A k \in 1..Len(deleted_subvols) :
                  /\ deleted_subvols[k].deleted
                  /\ deleted_subvols[k] = from_deleted(deleted_subvols[k].uuid)

\* C4's case: two subvolumes name the same missing parent, one by its received
\* UUID, and a second parent is missing too
C4_Witness ==
    /\ synthesized
    /\ Len(deleted_subvols) = 2
    /\ \E i, j \in 1..Len(Enumerated) :
          /\ i # j
          /\ Enumerated[i].ruuid = deleted_subvols[1].uuid
          /\ Enumerated[j].puuid = deleted_subvols[1].uuid
          /\ Enumerated[j].ruuid = None

-----------------------------------------------------------------------------
(* Claims about SubvolumeSieve, checked under SpecSieve *)

\* some named sieve predicate is true of s
Selected(names, s) == \E k \in 1..Len(names) : SIEVES(names[k], s, mounts)

\* the subsequence of list of the subvolumes no named predicate is true of
Kept(list, names) ==
    LET Survives(s) == ~Selected(names, s)
    IN  SelectSeq(list, Survives)

Registry(names) == \A k \in 1..Len(names) : names[k] \in SieveNames

\* C5: on a list of pairwise distinct uuids, sieve_str with registered names
\* returns exactly the subsequence of the subvolumes for which no selected
\* predicate is true, in their input order
C5_SieveSubsequence ==
    (call # NoCall /\ Registry(call.names) /\ DistinctIds(call.input, "snap"))
        => /\ call.raised = "none"
           /\ call.output = Kept(call.input, call.names)

\* two names, three subvolumes; the first is removed though only one of the
\* predicates is true of it, the other two survive in order
C5_Witness ==
    /\ call # NoCall /\ call.raised = "none"
    /\ Len(call.names) = 2
    /\ Len(call.input) = 3
    /\ SIEVES(call.names[1], call.input[1], mounts)
    /\ ~SIEVES(call.names[2], call.input[1], mounts)
    /\ call.output = <<call.input[2], call.input[3]>>

\* C6: a name that is no key of the registry ends the call in an error with
\* no sieve predicate evaluated and no list returned, wherever the name stands
\* and also on the empty list
C6_UnknownNameFailsFast ==
    (call # NoCall /\ ~Registry(call.names))
        => /\ call.raised = "KeyError"
           /\ call.evals = 0
           /\ call.output = <<>>

\* the unknown name stands last, after a registered name that is true of the
\* first subvolume of the list
C6_Witness ==
    /\ call # NoCall /\ call.raised = "KeyError"
    /\ Len(call.names) = 2
    /\ call.names[2] = UnknownName
    /\ call.input # <<>>
    /\ SIEVES(call.names[1], call.input[1], mounts)

C8_SieveMonotone ==
    (/\ prev # NoCall /\ prev.raised = "none"
     /\ call.raised = "none"
     /\ call.input = prev.input
     /\ Len(prev.names) <= Len(call.names)
     /\ SubSeq(call.names, 1, Len(prev.names)) = prev.names)
        => \A i \in 1..Len(call.output) :
              \E j \in 1..Len(prev.output) : call.output[i] = prev.output[j]

\* the added name removes a subvolume the first names kept, another stays
C8_Witness ==
    /\ prev # NoCall /\ prev.raised = "none"
    /\ call.raised = "none"
    /\ call.input = prev.input
    /\ Len(call.names) > Len(prev.names)
    /\ SubSeq(call.names, 1, Len(prev.names)) = prev.names
    /\ prev.names # <<>>
    /\ Len(prev.output) < Len(prev.input)
    /\ Len(call.output) < Len(prev.output)
    /\ call.output # <<>>

-----------------------------------------------------------------------------
(* Claims about ForestDisplay.sort_forest, checked under SpecSort *)

\* the identifiers of the nodes of a forest
NodesOf(trees_of) == UNION {DOMAIN trees_of[k].parent : k \in 1..Len(trees_of)}

\* the parent of node x in a forest, None for a root
ParentIn(trees_of, x) ==
    LET t == CHOOSE k \in 1..Len(trees_of) : Contains(trees_of[k], x)
    IN  trees_of[t].parent[x]

\* the forest has the nodes and the parent relation of the other, each node
\* in one tree, each tree hanging from its root
SameForest(trees_a, trees_b) ==
    /\ NodesOf(trees_a) = NodesOf(trees_b)
    /\ NodeCount(trees_a) = NodeCount(trees_b)
    /\ \A x \in NodesOf(trees_a) : ParentIn(trees_a, x) = ParentIn(trees_b, x)
    /\ \A k \in 1..Len(trees_a) : trees_a[k].parent[trees_a[k].root] = None

\* C9: for every forest, key and direction sort_forest returns a forest with
\* the nodes and the parent relation of its input, the pseudo root in no tree
C9_SortPreservesForest ==
    sort_call # NoSort
        => /\ sort_call.raised = "none"
           /\ SameForest(sort_call.output, sort_call.input)
           /\ PseudoRoot \notin NodesOf(sort_call.output)

\* C10: sort_forest on the forest sort_forest returned, with the same key and
\* direction, returns that forest: the same order of roots, the same order of
\* children at every node
C10_SortIdempotent ==
    (/\ sort_prev # NoSort /\ sort_prev.raised = "none"
     /\ sort_call.input = sort_prev.output
     /\ sort_call.sort_func = sort_prev.sort_func
     /\ sort_call.reverse = sort_prev.reverse)
        => /\ sort_call.raised = "none"
           /\ sort_call.output = sort_prev.output

\* descending by a field on which two children of a node tie; the first call
\* changed the order of the roots or of some children
C10_Witness ==
    /\ sort_prev # NoSort /\ sort_prev.raised = "none"
    /\ sort_call.input = sort_prev.output
    /\ sort_prev.sort_func = "Generation"
    /\ sort_prev.reverse
    /\ sort_prev.output # sort_prev.input
    /\ \E k \in 1..Len(sort_prev.input) :
          \E x \in DOMAIN sort_prev.input[k].children :
             LET c == sort_prev.input[k].children[x]
             IN  /\ Len(c) >= 2
                 /\ sort_prev.input[k].data[c[1]].gen = sort_prev.input[k].data[c[2]].gen
    /\ sort_call.output = sort_prev.output

\* the nodes of tree under x, x included, found from the parent links
RECURSIVE IsUnder(_, _, _)
IsUnder(tree, y, x) ==
    \/ y = x
    \/ (tree.parent[y] # None /\ IsUnder(tree, tree.parent[y], x))

\* the key the claim gives node x of tree: the number of nodes under it, or
\* the field of its Subvolume
KeyOf(sort_func, tree, x) ==
    IF sort_func = "size"
    THEN Cardinality({y \in DOMAIN tree.parent : IsUnder(tree, y, x)})
    ELSE tree.data[x].gen

\* the keys go in the direction asked for
InOrder(ks, reverse) ==
    \A k \in 1..(Len(ks) - 1) : IF reverse THEN ks[k] >= ks[k + 1] ELSE ks[k] <= ks[k + 1]

\* the keys of the children of x, in the children's order
ChildKeys(sort_func, tree, x) ==
    [k \in 1..Len(tree.children[x]) |-> KeyOf(sort_func, tree, tree.children[x][k])]

\* the keys of the roots, each on its whole tree
RootKeys(sort_func, trees_of) ==
    [k \in 1..Len(trees_of) |-> KeyOf(sort_func, trees_of[k], trees_of[k].root)]

\* C11: in the forest sort_forest returns, the children of every node and the
\* roots are in the order of the key, non-decreasing, or non-increasing when
\* reverse is asked for; the size of a node counts the nodes under it and
\* itself, the key of a root is taken on its whole tree
C11_SortedByKey ==
    (sort_call # NoSort /\ sort_call.raised = "none")
        => /\ InOrder(RootKeys(sort_call.sort_func, sort_call.output), sort_call.reverse)
           /\ \A k \in 1..Len(sort_call.output) :
                 \A x \in DOMAIN sort_call.output[k].parent :
                    InOrder(ChildKeys(sort_call.sort_func, sort_call.output[k], x),
                            sort_call.reverse)

\* children of subtree sizes 1, 3, 2 sorted by size, descending, come out
\* as 3, 2, 1
C11_Witness ==
    /\ sort_call # NoSort /\ sort_call.raised = "none"
    /\ sort_call.sort_func = "size" /\ sort_call.reverse
    /\ Len(sort_call.input) = 1 /\ Len(sort_call.output) = 1
    /\ ChildKeys("size", sort_call.input[1], sort_call.input[1].root) = <<1, 3, 2>>
    /\ ChildKeys("size", sort_call.output[1], sort_call.output[1].root) = <<3, 2, 1>>

-----------------------------------------------------------------------------
(* More claims about the forest builder, checked under Spec *)

\* some node of the forest has a placeholder as its payload
PlaceholderNode ==
    \E t \in 1..Len(trees) : \E n \in DOMAIN trees[t].parent : trees[t].data[n].deleted

\* C12: get_forest returns a forest and raises no error for every well-formed
\* list under either scheme, lists with one or several placeholders included
C12_GetForestNeverRaises == pc # "raised" /\ raised = "none"

\* C13: no placeholder is a node of the layout forest built for display
C13_NoPlaceholderInLayout == kind = "subvol" => ~PlaceholderNode

\* the lineage parent identifier the claim describes: the received UUID when
\* present, else the parent UUID, absent when both are
LineageParent(s) == IF s.ruuid # None THEN s.ruuid ELSE s.puuid

\* C14: under the lineage scheme the parent identifier is the received UUID
\* when present and the parent UUID otherwise; the forest builder hangs every
\* non-root node under the node with that identifier and leaves a subvolume
\* without one at a root, and the synthesizer makes its placeholders for
\* those identifiers
C14_LineageParentId ==
    /\ \A i \in 1..Len(subvols) : parent(subvols[i], "snap") = LineageParent(subvols[i])
    /\ kind = "snap" =>
          \A t \in 1..Len(trees) : \A n \in DOMAIN trees[t].parent :
             IF trees[t].parent[n] # None
             THEN trees[t].parent[n] = LineageParent(trees[t].data[n])
             ELSE \/ LineageParent(trees[t].data[n]) = None
                  \/ \A u \in 1..Len(trees) :
                        \/ ~Contains(trees[u], LineageParent(trees[t].data[n]))
                        \/ u = t
    /\ synthesized =>
          {deleted_subvols[k].uuid : k \in 1..Len(deleted_subvols)}
             = {LineageParent(Enumerated[i]) : i \in 1..Len(Enumerated)}
               \ ({None} \cup {Enumerated[i].uuid : i \in 1..Len(Enumerated)})

\* a subvolume whose received UUID and parent UUID are the uuids of two other
\* subvolumes of the list is the child of the one its received UUID names
C14_Witness ==
    /\ pc = "built" /\ kind = "snap"
    /\ \E i, j, k \in 1..Len(subvols) :
          /\ j # k /\ i # j /\ i # k
          /\ subvols[i].ruuid = subvols[j].uuid
          /\ subvols[i].puuid = subvols[k].uuid
          /\ IsChildOf(subvols[i], subvols[j])
          /\ ~IsChildOf(subvols[i], subvols[k])

-----------------------------------------------------------------------------
(* More claims about the classification and the sieve, under SpecSieve *)

\* the subvolumes of list that test is true of, in order
Those(list, test(_)) == SelectSeq(list, test)

\* s has a mount point: one of its paths is the target of a mount
HasMountPoint(s) == mount_points(s, mounts) # {}

\* s has a resolved path: its btrfs path lies under the fsroot of a mount
HasResolvedPath(s) ==
    /\ s.path # NoPath
    /\ \E m \in mounts : Len(m.fsroot) <= Len(s.path)
                         /\ \A k \in 1..Len(m.fsroot) : m.fsroot[k] = s.path[k]

\* sieve_str was called with the one name "unreachable" and returned
UnreachableSieved == call # NoCall /\ call.names = <<"unreachable">> /\ call.raised = "none"

\* C15 as stated: a subvolume is mounted exactly when it has a mount point,
\* and the "unreachable" sieve removes exactly the subvolumes that are no
\* placeholder and have no mount point
C15_MountedIffMountPoint ==
    /\ \A i \in 1..Len(sieve_subvolumes) :
          mounted(sieve_subvolumes[i], mounts) <=> HasMountPoint(sieve_subvolumes[i])
    /\ UnreachableSieved =>
          LET Stays(s) == s.deleted \/ HasMountPoint(s)
          IN  call.output = Those(call.input, Stays)

\* C15 amended: a subvolume is mounted exactly when it has a resolved path,
\* and the "unreachable" sieve removes exactly the subvolumes that are no
\* placeholder and have no resolved path
C15_MountedIffResolvedPath ==
    /\ \A i \in 1..Len(sieve_subvolumes) :
          mounted(sieve_subvolumes[i], mounts) <=> HasResolvedPath(sieve_subvolumes[i])
    /\ UnreachableSieved =>
          LET Stays(s) == s.deleted \/ HasResolvedPath(s)
          IN  call.output = Those(call.input, Stays)

\* the "unreachable" sieve kept a subvolume that has a path and no mount
\* point, and removed another
C15_Witness ==
    /\ UnreachableSieved
    /\ \E i \in 1..Len(call.output) :
          /\ ~call.output[i].deleted
          /\ ~HasMountPoint(call.output[i])
          /\ HasResolvedPath(call.output[i])
    /\ Len(call.output) < Len(call.input)

-----------------------------------------------------------------------------
(* Claims about the run of get_forest, under Spec and SpecFair *)

\* a call of get_tree is about to run its body
InGetTree == (pc = "loop" /\ subvolumes # <<>>) \/ pc = "call"

\* the argument of that call
Current == IF pc = "call" THEN arg ELSE subvolumes[1]

\* pool is the list with the element at one place of subvol taken out
OneRemoved(list, pool, subvol) ==
    \E k \in 1..Len(list) :
        /\ list[k] = subvol
        /\ pool = SubSeq(list, 1, k - 1) \o SubSeq(list, k + 1, Len(list))

\* a step of the run: a call of get_tree takes its argument, and nothing
\* else, out of the pool; no other step changes the pool
PoolStep ==
    IF InGetTree THEN OneRemoved(subvolumes, subvolumes', Current)
    ELSE pc \in {"return", "loop"} => subvolumes' = subvolumes

\* a subvolume whose get_tree call is suspended in the recursive call is out
\* of the pool already
SuspendedRemoved ==
    \A k \in 1..Len(stack) : \A j \in 1..Len(subvolumes) : subvolumes[j] # stack[k]

C17_AbsentParentIsRoot ==
    \A t \in 1..Len(trees) : \A n \in DOMAIN trees[t].parent :
        parent(trees[t].data[n], kind) = None => trees[t].parent[n] = None

\* the tree of one node Tree().create_node(name, id, data=subvol) makes
SingleNode(subvol) ==
    LET nid == Or(id(subvol, kind), EmptyStr)
    IN  [root |-> nid, parent |-> (nid :> None), children |-> (nid :> <<>>),
         data |-> (nid :> subvol)]

\* the argument of the get_tree call about to run names a parent that no
\* node of the forest and no other subvolume of the pool has as identifier
Orphaned ==
    /\ InGetTree
    /\ parent(Current, kind) # None
    /\ \A t \in 1..Len(trees) : parent(Current, kind) \notin DOMAIN trees[t].parent
    /\ \A j \in 1..Len(subvolumes) :
          subvolumes[j] # Current => id(subvolumes[j], kind) # parent(Current, kind)

\* C18: get_tree makes such a subvolume the root of a new tree, raises
\* nothing, and the run goes on with the rest of the list
C18_OrphanBecomesRoot ==
    [][Orphaned => /\ trees' = Append(trees, SingleNode(Current))
                   /\ raised' = "none"
                   /\ pc' \in {"loop", "return"}]_vars

\* the first subvolume of the list names a parent no subvolume has; it is a
\* root, and the subvolumes after it are in the forest as well
C18_Witness ==
    /\ pc = "built"
    /\ Len(subvols) >= 2
    /\ parent(subvols[1], kind) # None
    /\ \A j \in 1..Len(subvols) : id(subvols[j], kind) # parent(subvols[1], kind)
    /\ IsRoot(subvols[1])
    /\ Covered

\* the positions of list that are their own ancestors
OnCycle(list, p_type) ==
    {i \in 1..Len(list) : i \in Ancestors(list, p_type, {i}, Len(list))}

\* positions i and j are on one cycle
SameCycle(list, p_type, i, j) ==
    \/ i = j
    \/ /\ j \in Ancestors(list, p_type, {i}, Len(list))
       /\ i \in Ancestors(list, p_type, {j}, Len(list))

\* every node of every tree hangs from the root of its tree
CycleFree ==
    \A t \in 1..Len(trees) : \A n \in DOMAIN trees[t].parent :
        IsUnder(trees[t], n, trees[t].root)

\* what C19 says get_forest returns
CycleBroken ==
    /\ pc = "built"
    /\ Covered
    /\ CycleFree
    /\ \A i \in OnCycle(subvols, kind) :
          \E j \in OnCycle(subvols, kind) :
             SameCycle(subvols, kind, i, j) /\ IsRoot(subvols[j])

\* C19: on a list whose parent references form a cycle get_forest does not
\* raise and ends; it returns a cycle-free forest with every member of the
\* cycle in it once, a member of each cycle at a root
C19_CycleBroken == (Over /\ OnCycle(subvols, kind) # {}) => CycleBroken

-----------------------------------------------------------------------------
(* A further claim about SubvolumeSieve, under SpecSieve *)

\* C20: a call of sieve or sieve_str leaves the list in self.subvolumes as it
\* was, the same elements in the same order, and returns another list
C20_SieveLeavesInput ==
    [][(call' # call \/ prev' # prev)
          => /\ sieve_subvolumes' = sieve_subvolumes
             /\ call'.input = sieve_subvolumes
             /\ ~call'.same_list]_vars

\* a call that removed the first of three subvolumes; self.subvolumes still
\* has the three
C20_Witness ==
    /\ call # NoCall /\ call.raised = "none"
    /\ Len(call.input) = 3
    /\ call.output = Tail(call.input)
    /\ sieve_subvolumes = call.input
    /\ ~call.same_list

-----------------------------------------------------------------------------
(* A further claim about ForestDisplay.sort_forest, under SpecSort *)

\* the place of x in the sequence
PlaceIn(seq, x) == CHOOSE k \in 1..Len(seq) : seq[k] = x

\* two elements of before whose keys are equal are in after in the order
\* they have in before
KeepsTies(before, after, key_of(_)) ==
    \A a, b \in 1..Len(before) :
        (a < b /\ key_of(before[a]) = key_of(before[b]))
            => PlaceIn(after, before[a]) < PlaceIn(after, before[b])

\* the roots of a forest, in order
RootsOf(trees_of) == [k \in 1..Len(trees_of) |-> trees_of[k].root]

\* the tree of the forest that has node x
TreeOf(trees_of, x) == trees_of[CHOOSE k \in 1..Len(trees_of) : Contains(trees_of[k], x)]

\* C21: sorting is stable in both directions: two children of a node, or two
\* roots, whose keys are equal come out in the order they went in, whether
\* reverse is asked for or not
C21_SortStable ==
    (sort_call # NoSort /\ sort_call.raised = "none")
        => LET KeyIn(x) == KeyOf(sort_call.sort_func, TreeOf(sort_call.input, x), x)
           IN  /\ KeepsTies(RootsOf(sort_call.input), RootsOf(sort_call.output), KeyIn)
               /\ \A x \in NodesOf(sort_call.input) :
                     KeepsTies(TreeOf(sort_call.input, x).children[x],
                               TreeOf(sort_call.output, x).children[x], KeyIn)

\* reverse asked for, three children of a node: the first two tie and keep
\* their order, the third has a greater key and comes out first
C21_Witness ==
    /\ sort_call # NoSort /\ sort_call.raised = "none"
    /\ sort_call.reverse
    /\ \E x \in NodesOf(sort_call.input) :
          LET c == TreeOf(sort_call.input, x).children[x]
              d == TreeOf(sort_call.output, x).children[x]
              KeyIn(y) == KeyOf(sort_call.sort_func, TreeOf(sort_call.input, y), y)
          IN  /\ Len(c) = 3
              /\ KeyIn(c[1]) = KeyIn(c[2])
              /\ KeyIn(c[3]) > KeyIn(c[1])
              /\ d = <<c[3], c[1], c[2]>>

-----------------------------------------------------------------------------
(* A claim about get_forest and its caller's list, under SpecDisplay *)

\* the nodes of the forest whose payload is subvolume s
PlacesIn(forest, s) ==
    {<<t, x>> \in (1..Len(forest)) \X (0..(MaxDisplayed + 3)) :
        x \in DOMAIN forest[t].parent /\ forest[t].data[x] = s}

\* every subvolume of the list is the payload of one node of the forest, and
\* the forest has no other node
CoversList(forest, list) ==
    /\ NodeCount(forest) = Len(list)
    /\ \A i \in 1..Len(list) : Cardinality(PlacesIn(forest, list[i])) = 1

\* C22: get_forest leaves the list of its caller as it is, same elements in
\* the same order, so each of the two forests display_forest builds from the
\* same list, the layout forest and then the lineage forest, has every
\* subvolume of the list
C22_GetForestLeavesList ==
    /\ [][subvols' = subvols]_vars
    /\ [](\A k \in 1..Len(displayed) : CoversList(displayed[k], subvols))

\* both forests are built from a list of two subvolumes, one the child of the
\* other in layout and its parent in lineage
C22_Witness ==
    /\ pc = "shown"
    /\ Len(displayed) = 2
    /\ Len(subvols) = 2
    /\ \A k \in 1..2 : Len(displayed[k]) = 1 /\ CoversList(displayed[k], subvols)
    /\ displayed[1] # displayed[2]

-----------------------------------------------------------------------------
(* A claim about Btrfs.subvolumes, under SpecList *)

\* the uuids of the subvolumes that exist on the filesystem
Existing(fs) == {fs.top.uuid} \cup {fs.below[i].uuid : i \in 1..Len(fs.below)}

\* C23: for every remove set, every placeholder in the list Btrfs.subvolumes
\* returns has a uuid that no subvolume of the filesystem has, the top-level
\* subvolume (ID 5) included
C23_PlaceholdersAreGone ==
    listing.raised = "none"
        => \A k \in 1..Len(listing.output) :
              listing.output[k].deleted => listing.output[k].uuid \notin Existing(filesystem)

-----------------------------------------------------------------------------
(* A further claim about the sieves, under SpecSieve *)

\* the subvolumes of the list that sieving with the one name would remove
RemovedBy(name, list) ==
    {list[i] : i \in {j \in 1..Len(list) : SIEVES(name, list[j], mounts)}}

\* C24: the mount points of a subvolume are among its resolved paths, so a
\* subvolume the "unreachable" sieve matches is matched by the "non-mounts"
\* sieve as well, and a call that removes "non-mounts" removes every
\* subvolume, placeholders aside, that removing "unreachable" would remove
C24_UnreachableHasNoMountPoint ==
    /\ \A i \in 1..Len(sieve_subvolumes) :
          LET s == sieve_subvolumes[i]
          IN  /\ mount_points(s, mounts) \subseteq Paths(s, mounts)
              /\ SIEVES("unreachable", s, mounts) => SIEVES("non-mounts", s, mounts)
    /\ (call # NoCall /\ call.raised = "none" /\ "non-mounts" \in Range(call.names))
          => \A s \in RemovedBy("unreachable", call.input) :
                ~s.deleted => s \notin Range(call.output)

\* "non-mounts" alone was removed from a list with a subvolume that has no
\* resolved path, one that has a resolved path and no mount point, and one
\* that has a mount point: the last is all that stays
C24_Witness ==
    /\ call # NoCall /\ call.raised = "none" /\ call.names = <<"non-mounts">>
    /\ \E s \in Range(call.input) : ~s.deleted /\ Paths(s, mounts) = {}
    /\ \E s \in Range(call.input) : Paths(s, mounts) # {} /\ mount_points(s, mounts) = {}
    /\ Len(call.output) = 1
    /\ mount_points(call.output[1], mounts) # {}

-----------------------------------------------------------------------------
(* A claim about btrsend's logic, under SpecSend *)

IsPrefix(a, b) == Len(a) <= Len(b) /\ SubSeq(b, 1, Len(a)) = a

\* a snapshot directory is given and it is not on the subvolume's mount
OffMountSnapDir == send_args.snap_dir # None /\ send_args.snap_dir \notin send_args.on_mount

\* what C25 says is done when the run is not given up: the snapshot, in the
\* directory given or else at the subvolume's path, then one send for each
\* send directory off the subvolume's mount, then the deletion of the
\* snapshot if no directory was given
Described ==
    LET OffMount(d) == d \notin send_args.on_mount
        place == IF send_args.snap_dir = None THEN SubvolPath ELSE send_args.snap_dir
    IN  <<Op("snapshot", place)>>
        \o [k \in 1..Len(Those(send_args.send_dirs, OffMount)) |->
               Op("send", Those(send_args.send_dirs, OffMount)[k])]
        \o (IF send_args.snap_dir = None THEN <<Op("delete", place)>> ELSE <<>>)

\* the snapshots, sends and deletions of the snapshot done so far
Done ==
    LET OnSnapshot(o) == o.op \in {"snapshot", "send", "delete"}
    IN  Those(ops, OnSnapshot)

\* C25: with a snapshot directory that is not on the subvolume's mount
\* nothing is snapshotted, sent or deleted; otherwise what is done is, in
\* this order, one snapshot, one send to each send directory that is not on
\* the subvolume's mount, and the deletion of the snapshot exactly when no
\* snapshot directory was given, all of it once logic has returned
C25_BtrsendOrder ==
    /\ OffMountSnapDir => ops = <<>>
    /\ ~OffMountSnapDir => IsPrefix(Done, Described)
    /\ send_pc = "returned" => Done = (IF OffMountSnapDir THEN <<>> ELSE Described)

\* no snapshot directory, a send directory on the subvolume's mount and then
\* one off it: logic returned after snapshot, one send and the deletion
C25_Witness ==
    /\ send_pc = "returned"
    /\ send_args.snap_dir = None
    /\ Len(send_args.send_dirs) = 2
    /\ send_args.send_dirs[1] \in send_args.on_mount
    /\ send_args.send_dirs[2] \notin send_args.on_mount
    /\ ops = <<Op("snapshot", SubvolPath), Op("send", send_args.send_dirs[2]), Op("delete", SubvolPath)>>

====
